---- MODULE Spec2Model ----
(***************************************************************************)
(* BasePaint tracker: the useWallet hook (connect / chain switch state     *)
(* machine), the useOpenSea hook (batched market-data enrichment, REST and  *)
(* SDK variants) and the CanvasList trade modal (real and mock variants).   *)
(***************************************************************************)
EXTENDS Integers, Sequences, FiniteSets, TLC

\* ------------------------------------------------------------------ bounds
MaxConnects == 2      \* connect() calls of one hook instance in flight at once
MaxChecks   == 2      \* eth_accounts checks awaiting an answer at once
MaxItems    == 6      \* tokens in the list handed to enrichWithMarketData
MaxOwned    == 1      \* tokens the owned-token query returns to CanvasList
MaxPages    == 5      \* pages in the longest chain of pages the marketplace serves
MaxQuantity == 3      \* the largest quantity the user dials in before minting

\* ------------------------------------------------------- program constants
BASE_CHAIN_ID == "0x2105"
OTHER_CHAIN_ID == "0x1"
UNRECOGNIZED_CHAIN == 4902
USER_REJECTED == 4001
NO_WALLET_MSG == "No wallet found. Open in a crypto-enabled browser."
FAILED_TO_CONNECT == "Failed to connect"

COLLECTION_SLUG == "basepaint"
PAGE_REST == 200
CAP_REST == 500
PAGE_SDK == 50
CAP_SDK == 200
BATCH_REST == 4
BATCH_SDK == 5
DEFAULT_DECIMALS == 18
SEAPORT_1_6 == "0x0000000000000068F116a894984e2DB1123eB395"

Null == "null"
NoCode == 0
Undefined == "undefined"   \* the JavaScript value undefined
Absent == "absent"         \* the object has no such key

Calls == 1..MaxConnects
\* what eth_accounts / eth_requestAccounts / accountsChanged can carry
AccountLists == {<<>>, <<"0xA1">>, <<"0xB2">>}
\* an error object thrown by provider.request: a code and a (possibly empty) message
ProviderErrors == {[code |-> USER_REJECTED, message |-> "User rejected the request."],
                   [code |-> UNRECOGNIZED_CHAIN, message |-> "Unrecognized chain ID"],
                   [code |-> NoCode, message |-> ""]}

VARIABLES
  provider,      \* what getProvider() returns: "none", "basic" (no on()), "events"
  address,       \* useState: address
  isConnecting,  \* useState: isConnecting
  error,         \* useState: error
  initialized,   \* useRef: initialized.current
  mounted,       \* the mount effect is active (between effect run and teardown)
  cleanup,       \* the last effect run returned a cleanup function
  listeners,     \* event names of this hook's handlers registered on the provider
  checks,        \* eth_accounts requests of checkIfWalletIsConnected awaiting an answer
  calls,         \* connect() calls in flight: position, requests made, currentChainId
  sent,          \* provider.request methods issued by the last step
  op,            \* the handler that ran in the last step
  done,          \* the async call that settled in the last step (Null if none)
  variant,       \* which useOpenSea implementation runs: "rest" or "sdk"
  input,         \* enrichWithMarketData: the items argument
  onProgress,    \* enrichWithMarketData: the callback argument ("none", "record", "setItems")
  enriched,      \* enrichWithMarketData: the local array enriched
  batchStart,    \* enrichWithMarketData: the loop variable i (0-based)
  pending,       \* positions of the current batch whose fetches have not completed
  running,       \* a run of enrichWithMarketData is awaiting its current batch
  fetched,       \* what the marketplace answered for each position in this run
  snapshots,     \* the arrays handed to onProgress in this run, in order
  isLoadingOffers, \* useState: isLoadingOffers
  query,         \* the owned-token query in progress: its last request and its results
  floor,         \* FeaturedCanvases: items, isLoading, buyingId and its awaited calls
  peer,          \* a second mounted useWallet instance: its address, listener, check
  mint,          \* MintSection: mode, quantity, showModal, isMinting, its timer and the
                 \* mode the timer's closure holds
  items,         \* CanvasList useState: items (mock variant: the items prop)
  listVariant,   \* which CanvasList implementation runs: "real" or "mock"
  hasLoaded,     \* CanvasList useState: hasLoaded
  activeModal,   \* CanvasList useState: activeModal
  listingPrice,  \* CanvasList useState: listingPrice (the text of the price input)
  isProcessing,  \* CanvasList useState: isProcessing
  isLoadingNFTs, \* useOpenSea useState: isLoadingNFTs
  osError,       \* useOpenSea useState: error
  loading,       \* loadData awaits fetchOwnedBasePaints
  submit,        \* the order submission a confirm handler awaits
  effectAddress, \* the address the [address] effect of CanvasList last ran for
  emitted        \* onShowToast / onUpdateItem / onRemoveItem calls of the last step

walletVars == <<provider, address, isConnecting, error, initialized, mounted,
                cleanup, listeners, checks, calls>>
traceVars == <<sent, op, done, emitted>>
listVars == <<listVariant, hasLoaded, activeModal, listingPrice, isProcessing,
              isLoadingNFTs, osError, loading, submit, effectAddress>>
enrichVars == <<variant, input, onProgress, enriched, batchStart, pending, running,
                fetched, snapshots, isLoadingOffers, query, floor, mint,
                peer>>

vars == <<walletVars, traceVars, enrichVars, items, listVars>>

\* a step outside CanvasList: no toast, no prop callback, list state untouched
NoUi == emitted' = <<>> /\ UNCHANGED listVars

\* ------------------------------------------------------------- useWallet
\* a connect() call: where it waits, the requests it made, the chain id it read and
\* whether its setAddress changed the address
IdleCall == [pc |-> "idle", log |-> <<>>, chainId |-> Null, changed |-> FALSE]

\* provider.request({method}) issued by connect() call c
Request(cs, c, method, pc) ==
  [cs EXCEPT ![c].pc = pc,
             ![c].log = Append(@, [method |-> method, result |-> "pending", code |-> NoCode])]

\* the pending request of call c is answered
Answer(cs, c, result, code) ==
  [cs EXCEPT ![c].log = [@ EXCEPT ![Len(@)].result = result, ![Len(@)].code = code]]

\* the promise of an async function settles: what it was, how it ended, and the
\* finished call (connect) or the finished run (enrichWithMarketData)
Settled(fn, outcome, value) == [fn |-> fn, outcome |-> outcome, value |-> value]
NoneSettled == Settled("none", "none", IdleCall)

\* err.message || 'Failed to connect'
ErrorText(err) == IF err.message # "" THEN err.message ELSE FAILED_TO_CONNECT

\* checkIfWalletIsConnected up to its await: issues eth_accounts when a provider exists
checkIfWalletIsConnected ==
  IF provider = "none"
    THEN checks' = checks /\ sent' = <<>>
    ELSE checks' = checks + 1 /\ sent' = <<"eth_accounts">>

CheckAnswer_clearsWithoutAccount(lists) ==
  /\ checks > 0
  /\ \E ok \in BOOLEAN, accounts \in lists :
       LET first == IF ok /\ Len(accounts) > 0 THEN accounts[1] ELSE Null
       IN /\ address' = first
          /\ done' = Settled("checkIfWalletIsConnected", "resolved", [returned |-> first])
  /\ checks' = checks - 1
  /\ sent' = <<>>
  /\ op' = "checkIfWalletIsConnected"
  /\ NoUi /\ UNCHANGED <<enrichVars, items, provider, isConnecting, error, initialized, mounted, cleanup,
                 listeners, calls>>

\* the eth_accounts request of checkIfWalletIsConnected settles (answer or throw): it
\* returns accounts[0] after setAddress(accounts[0]), and null otherwise
CheckAnswer(lists) ==
  /\ checks > 0
  /\ \E ok \in BOOLEAN, accounts \in lists :
       LET first == IF ok /\ Len(accounts) > 0 THEN accounts[1] ELSE Null
       IN /\ address' = IF first # Null THEN first ELSE address
          /\ done' = Settled("checkIfWalletIsConnected", "resolved", [returned |-> first])
  /\ checks' = checks - 1
  /\ sent' = <<>>
  /\ op' = "checkIfWalletIsConnected"
  /\ NoUi /\ UNCHANGED <<enrichVars, items, provider, isConnecting, error, initialized, mounted, cleanup,
                 listeners, calls>>

\* useEffect body
MountEffect ==
  /\ ~mounted
  /\ mounted' = TRUE
  /\ op' = "useEffect"
  /\ done' = NoneSettled
  /\ IF initialized
       THEN /\ UNCHANGED <<initialized, checks, listeners>>
            /\ sent' = <<>>
            /\ cleanup' = FALSE
       ELSE /\ initialized' = TRUE
            /\ checkIfWalletIsConnected
            /\ IF provider = "events"
                 THEN listeners' = listeners \cup {"accountsChanged", "chainChanged"}
                      /\ cleanup' = TRUE
                 ELSE UNCHANGED listeners /\ cleanup' = FALSE
  /\ NoUi /\ UNCHANGED <<enrichVars, items, provider, address, isConnecting, error, calls>>

\* the cleanup function returned by the effect
Teardown ==
  /\ mounted
  /\ mounted' = FALSE
  /\ cleanup' = FALSE
  /\ listeners' = IF cleanup THEN {} ELSE listeners
  /\ sent' = <<>>
  /\ op' = "teardown"
  /\ done' = NoneSettled
  /\ NoUi /\ UNCHANGED <<enrichVars, items, provider, address, isConnecting, error, initialized, checks, calls>>

handleAccountsChanged(lists) ==
  /\ "accountsChanged" \in listeners
  /\ \E accounts \in lists :
       address' = IF Len(accounts) > 0 THEN accounts[1] ELSE Null
  /\ sent' = <<>>
  /\ op' = "handleAccountsChanged"
  /\ done' = NoneSettled
  /\ NoUi /\ UNCHANGED <<enrichVars, items, provider, isConnecting, error, initialized, mounted, cleanup,
                 listeners, checks, calls>>

\* the chains the provider can report
ChainIds == {BASE_CHAIN_ID, OTHER_CHAIN_ID}

\* the chainChanged listener; it takes no parameter, so the reported chain is not read
handleChainChanged(chainId) ==
  /\ "chainChanged" \in listeners
  /\ chainId \in ChainIds
  /\ checks < MaxChecks
  /\ checkIfWalletIsConnected
  /\ op' = "handleChainChanged"
  /\ done' = NoneSettled
  /\ NoUi /\ UNCHANGED <<enrichVars, items, provider, address, isConnecting, error, initialized, mounted,
                 cleanup, listeners, calls>>

\* connect() up to the first await (or to the early return without a provider)
ConnectBegin_requestsWithoutProvider(c) ==
  /\ error' = Null
  /\ isConnecting' = TRUE
  /\ calls' = Request(calls, c, "eth_requestAccounts", "awaitAccounts")
  /\ sent' = <<"eth_requestAccounts">>
  /\ done' = NoneSettled

ConnectBegin(c) ==
  IF provider = "none"
    THEN /\ error' = NO_WALLET_MSG
         /\ isConnecting' = FALSE
         /\ calls' = calls
         /\ sent' = <<>>
         /\ done' = Settled("connect", "resolved", IdleCall)
    ELSE /\ error' = Null
         /\ isConnecting' = TRUE
         /\ calls' = Request(calls, c, "eth_requestAccounts", "awaitAccounts")
         /\ sent' = <<"eth_requestAccounts">>
         /\ done' = NoneSettled

\* connect() called on the hook, in the lowest free call slot
connect(c) ==
  /\ calls[c].pc = "idle"
  /\ \A d \in Calls : d < c => calls[d].pc # "idle"
  /\ op' = "connect"
  /\ ConnectBegin(c)
  /\ NoUi /\ UNCHANGED <<enrichVars, items, provider, address, initialized, mounted, cleanup, listeners, checks>>

\* mutant: no catch block, the error leaves connect() and the spinner stays
ConnectCatch_rethrow(c, err) ==
  /\ calls' = [calls EXCEPT ![c] = IdleCall]
  /\ done' = Settled("connect", "rejected", Answer(calls, c, "rejected", err.code)[c])
  /\ sent' = <<>>
  /\ UNCHANGED <<address, error, isConnecting>>

\* catch (err) { setError(...) } finally { setIsConnecting(false) }
ConnectCatch(c, err) ==
  /\ error' = ErrorText(err)
  /\ isConnecting' = FALSE
  /\ calls' = [calls EXCEPT ![c] = IdleCall]
  /\ done' = Settled("connect", "resolved", Answer(calls, c, "rejected", err.code)[c])
  /\ sent' = <<>>
  /\ UNCHANGED address

\* the try block ran to its end; finally { setIsConnecting(false) }
ConnectFinally(cs, c) ==
  /\ isConnecting' = FALSE
  /\ calls' = [calls EXCEPT ![c] = IdleCall]
  /\ done' = Settled("connect", "resolved", cs[c])
  /\ sent' = <<>>

\* eth_requestAccounts settles
ConnectAccounts(c) ==
  /\ calls[c].pc = "awaitAccounts"
  /\ op' = "connect"
  /\ \/ \E accounts \in AccountLists :
          /\ address' = IF Len(accounts) > 0 THEN accounts[1] ELSE address
          /\ calls' = [Request(Answer(calls, c, "ok", NoCode), c, "eth_chainId",
                               "awaitChainId")
                         EXCEPT ![c].changed = (address' # address)]
          /\ sent' = <<"eth_chainId">>
          /\ done' = NoneSettled
          /\ UNCHANGED <<error, isConnecting>>
     \/ \E err \in ProviderErrors : ConnectCatch(c, err)
  /\ NoUi /\ UNCHANGED <<enrichVars, items, provider, initialized, mounted, cleanup, listeners, checks>>

\* eth_chainId settles
ConnectChainId(c) ==
  /\ calls[c].pc = "awaitChainId"
  /\ op' = "connect"
  /\ \/ \E currentChainId \in {BASE_CHAIN_ID, OTHER_CHAIN_ID} :
          LET cs == [Answer(calls, c, "ok", NoCode) EXCEPT ![c].chainId = currentChainId]
          IN IF currentChainId # BASE_CHAIN_ID
               THEN /\ calls' = Request(cs, c, "wallet_switchEthereumChain", "awaitSwitch")
                    /\ sent' = <<"wallet_switchEthereumChain">>
                    /\ done' = NoneSettled
                    /\ UNCHANGED <<error, isConnecting, address>>
               ELSE /\ ConnectFinally(cs, c)
                    /\ UNCHANGED <<error, address>>
     \/ \E err \in ProviderErrors : ConnectCatch(c, err)
  /\ NoUi /\ UNCHANGED <<enrichVars, items, provider, initialized, mounted, cleanup, listeners, checks>>

\* mutant: every failed switch falls back to wallet_addEthereumChain
ConnectSwitch_addOnAnyError(c) ==
  /\ calls[c].pc = "awaitSwitch"
  /\ op' = "connect"
  /\ \/ /\ ConnectFinally(Answer(calls, c, "ok", NoCode), c)
        /\ UNCHANGED <<error, address>>
     \/ \E switchError \in ProviderErrors :
          /\ calls' = Request(Answer(calls, c, "rejected", switchError.code), c,
                              "wallet_addEthereumChain", "awaitAdd")
          /\ sent' = <<"wallet_addEthereumChain">>
          /\ done' = NoneSettled
          /\ UNCHANGED <<error, isConnecting, address>>
  /\ NoUi /\ UNCHANGED <<enrichVars, items, provider, initialized, mounted, cleanup, listeners, checks>>

\* wallet_switchEthereumChain settles; catch (switchError) adds the chain on 4902
ConnectSwitch(c) ==
  /\ calls[c].pc = "awaitSwitch"
  /\ op' = "connect"
  /\ \/ /\ ConnectFinally(Answer(calls, c, "ok", NoCode), c)
        /\ UNCHANGED <<error, address>>
     \/ \E switchError \in ProviderErrors :
          LET cs == Answer(calls, c, "rejected", switchError.code)
          IN IF switchError.code = UNRECOGNIZED_CHAIN
               THEN /\ calls' = Request(cs, c, "wallet_addEthereumChain", "awaitAdd")
                    /\ sent' = <<"wallet_addEthereumChain">>
                    /\ done' = NoneSettled
                    /\ UNCHANGED <<error, isConnecting, address>>
               ELSE /\ ConnectFinally(cs, c)
                    /\ UNCHANGED <<error, address>>
  /\ NoUi /\ UNCHANGED <<enrichVars, items, provider, initialized, mounted, cleanup, listeners, checks>>

\* wallet_addEthereumChain settles
ConnectAdd(c) ==
  /\ calls[c].pc = "awaitAdd"
  /\ op' = "connect"
  /\ \/ /\ ConnectFinally(Answer(calls, c, "ok", NoCode), c)
        /\ UNCHANGED <<error, address>>
     \/ \E err \in ProviderErrors : ConnectCatch(c, err)
  /\ NoUi /\ UNCHANGED <<enrichVars, items, provider, initialized, mounted, cleanup, listeners, checks>>

\* mutant: disconnect resets the whole session state
disconnect_resetsSession ==
  /\ address' = Null
  /\ error' = Null
  /\ isConnecting' = FALSE
  /\ sent' = <<>>
  /\ op' = "disconnect"
  /\ done' = NoneSettled
  /\ NoUi /\ UNCHANGED <<enrichVars, items, provider, initialized, mounted, cleanup,
                 listeners, checks, calls>>

disconnect ==
  /\ address' = Null
  /\ sent' = <<>>
  /\ op' = "disconnect"
  /\ done' = NoneSettled
  /\ NoUi /\ UNCHANGED <<enrichVars, items, provider, isConnecting, error, initialized, mounted, cleanup,
                 listeners, checks, calls>>

\* ------------------------------------------------------------- numbers
\* a decimal number m * 10^-s is the pair <<m, s>> without trailing zeros;
\* an optional number or string is <<>> (undefined) or <<v>>
Zero == <<0, 0>>
NoNum == <<>>

RECURSIVE Normal(_, _)
Normal(m, s) == IF s > 0 /\ m % 10 = 0 THEN Normal(m \div 10, s - 1) ELSE <<m, s>>

\* mutant: the decimals argument is ignored
FormatUnits_ignoreDecimals(raw, decimals) == Normal(raw, DEFAULT_DECIMALS)

\* parseFloat(ethers.formatUnits(raw, decimals))
FormatUnits(raw, decimals) == Normal(raw, decimals)

\* ------------------------------------------------------- marketplace data
\* one answer of a best-listing / best-offer endpoint: a failure (non-OK status or
\* thrown error), no order, or an order with optional price value and decimals
Failed == [kind |-> "error", value |-> <<>>, decimals |-> <<>>,
           order_hash |-> Undefined, protocol_address |-> Undefined]
NoOrder == [Failed EXCEPT !.kind = "none"]
Order(value, decimals, hash, proto) ==
  [kind |-> "order", value |-> value, decimals |-> decimals,
   order_hash |-> hash, protocol_address |-> proto]
NoAnswer == [listing |-> [Failed EXCEPT !.kind = "pending"],
             offer |-> [Failed EXCEPT !.kind = "pending"]]

\* the answers one token can get for its two fetches
MarketResponses ==
  { [listing |-> Failed, offer |-> Failed],
    [listing |-> NoOrder, offer |-> NoOrder],
    [listing |-> Order(<<25>>, <<3>>, "0xl1", SEAPORT_1_6), offer |-> NoOrder],
    [listing |-> Order(<<>>, <<3>>, "0xl2", SEAPORT_1_6),
     offer |-> Order(<<120>>, <<4>>, "0xo1", SEAPORT_1_6)],
    [listing |-> Order(<<5>>, <<>>, "0xl3", SEAPORT_1_6),
     offer |-> Order(<<7>>, <<>>, "0xo2", SEAPORT_1_6)] }

\* CanvasItem as fetchNFTsByOwner / fetchOwnedBasePaints builds it
FreshItem(tokenId) ==
  [id |-> tokenId, day |-> tokenId, imageUrl |-> <<"image?day=", tokenId>>,
   lastSale |-> Zero, bestOffer |-> Zero, listPrice |-> NoNum, isListed |-> FALSE,
   bestOfferOrderHash |-> Absent, bestOfferProtocolAddress |-> Absent]

\* the tokens a wallet owns: 701, 703, 705, ...
OwnedTokens(n) == [k \in 1..n |-> FreshItem(699 + 2 * k)]

\* ------------------------------------------------------------- useOpenSea
fetchBestListing_listedWithoutPrice(res) ==
  IF res.kind # "order"
    THEN [isListed |-> FALSE, listPrice |-> NoNum]
    ELSE [isListed |-> TRUE,
          listPrice |-> IF res.value = <<>> THEN NoNum
                        ELSE FormatUnits(res.value[1],
                               IF res.decimals = <<>> THEN DEFAULT_DECIMALS
                               ELSE res.decimals[1])]

fetchBestListing(res) ==
  IF res.kind # "order" \/ res.value = <<>>
    THEN [isListed |-> FALSE, listPrice |-> NoNum]
    ELSE [isListed |-> TRUE,
          listPrice |-> FormatUnits(res.value[1],
                          IF res.decimals = <<>> THEN DEFAULT_DECIMALS ELSE res.decimals[1])]

\* mutant: the catch block returns an object without bestOffer
fetchBestOffer_emptyOnError(res) ==
  IF res.kind = "error"
    THEN [bestOffer |-> NoNum, orderHash |-> Undefined, protocolAddress |-> Undefined]
    ELSE IF res.kind # "order" \/ res.value = <<>>
      THEN [bestOffer |-> Zero, orderHash |-> Undefined, protocolAddress |-> Undefined]
      ELSE [bestOffer |-> FormatUnits(res.value[1],
                            IF res.decimals = <<>> THEN DEFAULT_DECIMALS ELSE res.decimals[1]),
            orderHash |-> res.order_hash, protocolAddress |-> res.protocol_address]

fetchBestOffer(res) ==
  IF res.kind # "order" \/ res.value = <<>>
    THEN [bestOffer |-> Zero, orderHash |-> Undefined, protocolAddress |-> Undefined]
    ELSE [bestOffer |-> FormatUnits(res.value[1],
                          IF res.decimals = <<>> THEN DEFAULT_DECIMALS ELSE res.decimals[1]),
          orderHash |-> res.order_hash, protocolAddress |-> res.protocol_address]

\* SDK variant: one call per token, offer first, then listing
fetchTokenMarketData(res) ==
  LET hasOffer == res.offer.kind = "order" /\ res.offer.decimals # <<>> /\ res.offer.value # <<>>
      hasListing == res.listing.kind = "order" /\ res.listing.decimals # <<>>
                      /\ res.listing.value # <<>>
  IN [bestOffer |-> IF hasOffer THEN FormatUnits(res.offer.value[1], res.offer.decimals[1])
                                ELSE Zero,
      bestOfferOrderHash |-> IF hasOffer THEN res.offer.order_hash ELSE Undefined,
      listPrice |-> IF hasListing
                      THEN FormatUnits(res.listing.value[1], res.listing.decimals[1])
                      ELSE NoNum,
      isListed |-> hasListing]

\* the object written to enriched[i + idx], REST variant
AnnotateRest(item, res) ==
  LET listingData == fetchBestListing(res.listing)
      offerData == fetchBestOffer(res.offer)
  IN [item EXCEPT !.listPrice = listingData.listPrice,
                  !.isListed = listingData.isListed,
                  !.bestOffer = offerData.bestOffer,
                  !.bestOfferOrderHash = offerData.orderHash,
                  !.bestOfferProtocolAddress = offerData.protocolAddress]

\* the object written to enriched[i + idx], SDK variant
AnnotateSdk(item, res) ==
  LET data == fetchTokenMarketData(res)
  IN [item EXCEPT !.bestOffer = data.bestOffer,
                  !.listPrice = data.listPrice,
                  !.isListed = data.isListed,
                  !.bestOfferOrderHash = data.bestOfferOrderHash]

\* mutant: the written object is built without the item's own fields
Annotate_withoutSpread(item, res) ==
  IF variant = "rest" THEN AnnotateRest(FreshItem(0), res)
  ELSE AnnotateSdk(FreshItem(0), res)

Annotate(item, res) ==
  IF variant = "rest" THEN AnnotateRest(item, res) ELSE AnnotateSdk(item, res)

\* mutant: the whole list is one batch
BATCH_wholeList == Len(input) + 1

BATCH == IF variant = "rest" THEN BATCH_REST ELSE BATCH_SDK

\* mutant: the slice ends one position early
BatchAt_shortSlice(i, n) == {k \in 1..n : i < k /\ k < i + BATCH}

\* positions (1-based) of enriched.slice(i, i + BATCH) for the 0-based loop variable i
BatchAt(i, n) == {k \in 1..n : i < k /\ k <= i + BATCH}

\* one network request per token of a batch goes out
Fetches(n) == [j \in 1..n |-> "fetch"]

\* what a finished run returned, with the snapshots it emitted and the answers it got
Returned(result, emittedSnapshots, answers) ==
  [result |-> result, snapshots |-> emittedSnapshots, fetched |-> answers]

\* no owned-token query is running
IdleQuery == [pc |-> "idle", collection |-> "", next |-> FALSE,
              tracked |-> 0, foreign |-> 0, requested |-> 0]

\* a listing of the floor, and the value of buyingId / the awaited purchase without one
FloorListing(hash, tokenId) ==
  [orderHash |-> hash, protocolAddress |-> SEAPORT_1_6, tokenId |-> tokenId]
NoListing == FloorListing(Null, 0)

\* FeaturedCanvases before its mount effect: useState([]), useState(true), useState(null)
FloorIdle == [mounted |-> FALSE, items |-> <<>>, isLoading |-> TRUE, buyingId |-> Null,
              loading |-> FALSE, buy |-> NoListing]

\* MintSection after construction: useState('current'), useState(1), useState(false) twice
MintIdle == [mode |-> "current", quantity |-> 1, showModal |-> FALSE,
             isMinting |-> FALSE, timer |-> FALSE, label |-> "current"]

\* the second useWallet instance before its mount effect
PeerIdle == [mounted |-> FALSE, address |-> Null, listening |-> FALSE, checking |-> FALSE]

EnrichIdle ==
  /\ query = IdleQuery
  /\ peer = PeerIdle
  /\ floor = FloorIdle
  /\ mint = MintIdle
  /\ onProgress = "none"
  /\ enriched = <<>>
  /\ batchStart = 0
  /\ pending = {}
  /\ running = FALSE
  /\ fetched = <<>>
  /\ snapshots = <<>>
  /\ isLoadingOffers = FALSE

\* enrichWithMarketData(list, cb) up to the first await, or to its return for no items
EnrichBegin(list, cb) ==
  /\ input' = list
  /\ onProgress' = cb
  /\ enriched' = IF Len(list) > 0 THEN list ELSE <<>>
  /\ batchStart' = 0
  /\ fetched' = [k \in 1..Len(list) |-> NoAnswer]
  /\ snapshots' = <<>>
  /\ pending' = BatchAt(0, Len(list))
  /\ running' = (Len(list) > 0)
  /\ isLoadingOffers' = (Len(list) > 0)
  /\ sent' = Fetches(Cardinality(BatchAt(0, Len(list))))
  /\ done' = IF Len(list) > 0 THEN NoneSettled
             ELSE Settled("enrichWithMarketData", "resolved", Returned(list, <<>>, <<>>))

\* a direct call of enrichWithMarketData with a recording callback
enrichWithMarketData ==
  /\ ~running
  /\ EnrichBegin(input, "record")
  /\ op' = "enrichWithMarketData"
  /\ NoUi
  /\ UNCHANGED <<walletVars, variant, query, floor, mint, peer, items>>

\* mutant: a callback writes the next free position of its batch, in completion order
WrittenPosition_completionOrder(k) ==
  batchStart + Cardinality(BatchAt(batchStart, Len(enriched)) \ pending) + 1

\* enriched[i + idx] = ...: the callback of position k closes over i and idx
WrittenPosition(k) == k

\* mutant: the batch is over with its first completed callback (Promise.race)
BatchDone_firstCompletion(k) == TRUE

\* Promise.all over the batch resolves when the callback of position k was its last
BatchDone(k) == pending = {k}

\* both fetches of position k have settled and its async callback writes enriched[k];
\* with the last callback of the batch Promise.all resolves: onProgress, then the next
\* batch starts or the function returns and its locals are gone
FetchComplete(k) ==
  /\ running
  /\ k \in pending
  /\ op' = "enrichWithMarketData"
  /\ \E res \in MarketResponses :
       LET e2 == [enriched EXCEPT ![WrittenPosition(k)] = Annotate(enriched[k], res)]
           f2 == [fetched EXCEPT ![k] = res]
           s2 == IF onProgress # "none" THEN Append(snapshots, e2) ELSE snapshots
           next == batchStart + BATCH
       IN IF ~BatchDone(k)
            THEN /\ enriched' = e2
                 /\ fetched' = f2
                 /\ pending' = pending \ {k}
                 /\ sent' = <<>>
                 /\ done' = NoneSettled
                 /\ UNCHANGED <<batchStart, running, snapshots, isLoadingOffers, items>>
            ELSE /\ items' = IF onProgress = "setItems" THEN e2 ELSE items
                 /\ IF next < Len(enriched)
                      THEN /\ enriched' = e2
                           /\ fetched' = f2
                           /\ snapshots' = s2
                           /\ batchStart' = next
                           /\ pending' = BatchAt(next, Len(enriched))
                           /\ sent' = Fetches(Cardinality(BatchAt(next, Len(enriched))))
                           /\ done' = NoneSettled
                           /\ UNCHANGED <<running, isLoadingOffers>>
                      ELSE /\ enriched' = <<>>
                           /\ fetched' = <<>>
                           /\ snapshots' = <<>>
                           /\ batchStart' = 0
                           /\ pending' = {}
                           /\ sent' = <<>>
                           /\ running' = FALSE
                           /\ isLoadingOffers' = FALSE
                           /\ done' = Settled("enrichWithMarketData", "resolved",
                                              Returned(e2, s2, f2))
  /\ NoUi
  /\ UNCHANGED <<walletVars, variant, query, floor, mint, peer, input,
                 onProgress>>

\* ------------------------------------------------------ owned-token query
\* tokens are counted, not listed: tracked are tokens of the BasePaint collection,
\* foreign are tokens of other collections
PageLimit == IF variant = "rest" THEN PAGE_REST ELSE PAGE_SDK
ResultCap == IF variant = "rest" THEN CAP_REST ELSE CAP_SDK

\* the request of one page: the REST variant asks the marketplace for the collection,
\* the SDK variant asks for every token of the account
PageRequest(q, cursor) ==
  [q EXCEPT !.pc = "await",
            !.collection = IF variant = "rest" THEN COLLECTION_SLUG ELSE "",
            !.next = cursor,
            !.requested = @ + 1]

\* the pages the marketplace can answer the last request with: none, half a page or
\* a full page of tokens, of the asked collection only when one was asked for; the
\* last page of the longest chain has no next cursor
PageAnswers ==
  LET sizes == {0, PageLimit \div 2, PageLimit}
  IN {page \in [tracked : sizes, foreign : sizes, next : BOOLEAN] :
        /\ page.tracked + page.foreign <= PageLimit
        /\ query.collection # "" => page.foreign = 0
        /\ query.requested >= MaxPages => ~page.next}

\* results after the for loop over a page: only the SDK variant compares nft.contract
Collected(q, page) ==
  [q EXCEPT !.tracked = @ + page.tracked,
            !.foreign = IF variant = "rest" THEN @ + page.foreign ELSE @]

\* results.length
ResultCount(q) == q.tracked + q.foreign

MorePages_ignoresCap(next, count) == next

\* while (next && results.length < cap)
MorePages(next, count) == next /\ count < ResultCap

\* err?.message || 'Failed to fetch NFTs'
QueryError(message) ==
  IF message # "" THEN message
  ELSE IF variant = "rest" THEN "Failed to fetch NFTs" ELSE "Failed to fetch owned NFTs"

\* what fetchOwnedBasePaints resolved to, with the cursor of the last page it read
Owned(q, next, failed) ==
  [tracked |-> q.tracked, foreign |-> q.foreign, requested |-> q.requested,
   next |-> next, failed |-> failed]

\* fetchOwnedBasePaints(address) up to the await of its first page
fetchOwnedBasePaints ==
  /\ query.pc = "idle"
  /\ query' = PageRequest(IdleQuery, FALSE)
  /\ isLoadingNFTs' = TRUE
  /\ osError' = Null
  /\ sent' = <<"nfts">>
  /\ op' = "fetchOwnedBasePaints"
  /\ done' = NoneSettled
  /\ emitted' = <<>>
  /\ UNCHANGED <<walletVars, variant, input, onProgress, enriched, batchStart, pending,
                 running, fetched, snapshots, isLoadingOffers, floor, mint, peer, items,
                 listVariant,
                 hasLoaded, activeModal, listingPrice, isProcessing, loading, submit,
                 effectAddress>>

\* the awaited page request settles: a thrown error or a non-OK status ends the query
\* with [] and the error set; a page is collected, then the loop goes on or returns
PageAnswer ==
  /\ query.pc = "await"
  /\ op' = "fetchOwnedBasePaints"
  /\ emitted' = <<>>
  /\ \/ \E message \in {"OpenSea NFTs error: 500", ""} :
          /\ osError' = QueryError(message)
          /\ isLoadingNFTs' = FALSE
          /\ query' = IdleQuery
          /\ sent' = <<>>
          /\ done' = Settled("fetchOwnedBasePaints", "resolved",
                             Owned(IdleQuery, FALSE, TRUE))
     \/ \E page \in PageAnswers :
          LET q == Collected(query, page)
          IN IF MorePages(page.next, ResultCount(q))
               THEN /\ query' = PageRequest(q, TRUE)
                    /\ sent' = <<"nfts">>
                    /\ done' = NoneSettled
                    /\ UNCHANGED <<isLoadingNFTs, osError>>
               ELSE /\ query' = IdleQuery
                    /\ isLoadingNFTs' = FALSE
                    /\ sent' = <<>>
                    /\ done' = Settled("fetchOwnedBasePaints", "resolved",
                                       Owned(q, page.next, FALSE))
                    /\ UNCHANGED osError
  /\ UNCHANGED <<walletVars, variant, input, onProgress, enriched, batchStart, pending,
                 running, fetched, snapshots, isLoadingOffers, floor, mint, peer, items,
                 listVariant,
                 hasLoaded, activeModal, listingPrice, isProcessing, loading, submit,
                 effectAddress>>

\* -------------------------------------------------------------- CanvasList
NoItem == FreshItem(0)
ClosedModal == [type |-> "closed", item |-> NoItem]      \* activeModal = null
NoSubmit == [kind |-> "none", item |-> NoItem, price |-> NoNum]

\* the mock portfolio handed to the mock variant of CanvasList as its items prop
PORTFOLIO_ITEMS ==
  << [FreshItem(703) EXCEPT !.listPrice = <<25, 3>>, !.isListed = TRUE],
     [FreshItem(701) EXCEPT !.listPrice = <<725, 5>>, !.isListed = TRUE],
     [FreshItem(699) EXCEPT !.listPrice = <<31, 4>>, !.isListed = TRUE],
     [FreshItem(544) EXCEPT !.listPrice = <<11, 3>>, !.isListed = TRUE],
     [FreshItem(233) EXCEPT !.listPrice = <<103, 5>>, !.isListed = TRUE] >>

\* an items prop of the mock variant with a standing offer on its first token; the
\* CanvasItem of types.ts has no order hash
OFFERED_ITEMS == [PORTFOLIO_ITEMS EXCEPT ![1].bestOffer = <<12, 3>>]

\* what the user types into the price input: '0' or '0.030' (the input is '' when the
\* modal opens for an unlisted item)
ListingInputs == {<<0, 0>>, <<30, 3>>}

\* errors thrown by createListing / fulfillOffer
SubmitErrors == {"user rejected action", "", "insufficient funds"}

\* Number(listingPrice) for a non-empty decimal text
NumberOf(text) == Normal(text[1], text[2])

\* item.listPrice ? item.listPrice.toString() : ''
PriceText(item) ==
  IF item.listPrice = NoNum \/ item.listPrice = Zero THEN <<>> ELSE item.listPrice

\* !listingPrice || isNaN(Number(listingPrice)) || Number(listingPrice) <= 0
InvalidPrice(text) == text = <<>> \/ NumberOf(text)[1] <= 0

\* err?.message?.includes('rejected')
IncludesRejected(message) == message = "user rejected action"

Toast(msg, type) == [call |-> "onShowToast", msg |-> msg, type |-> type, id |-> 0]
PropCall(name, id) == [call |-> name, msg |-> "", type |-> "", id |-> id]

\* the component shows the grid and the modal; the real variant returns early without
\* an address, while the first load runs, and for an empty loaded list
Rendered ==
  \/ listVariant = "mock"
  \/ /\ address # Null
     /\ ~(isLoadingNFTs /\ ~hasLoaded)
     /\ ~(hasLoaded /\ Len(items) = 0)

\* what the real variant renders: its early returns in order, then the grid; no branch
\* reads the error of useOpenSea
View ==
  IF address = Null THEN "connect"
  ELSE IF isLoadingNFTs /\ ~hasLoaded THEN "loading"
  ELSE IF hasLoaded /\ Len(items) = 0 THEN "empty"
  ELSE "grid"

\* fetchOwnedBasePaints(address) up to its await, called from loadData
LoadBegin ==
  /\ hasLoaded' = FALSE
  /\ isLoadingNFTs' = TRUE
  /\ osError' = Null
  /\ loading' = TRUE
  /\ sent' = <<"fetchNFTsByOwner">>

\* useEffect(() => { if (address) loadData(); else { setItems([]); ... } }, [address])
AddressEffect ==
  /\ listVariant = "real"
  /\ effectAddress # address
  /\ effectAddress' = address
  /\ op' = "addressEffect"
  /\ done' = NoneSettled
  /\ emitted' = <<>>
  /\ IF address # Null
       THEN /\ LoadBegin
            /\ UNCHANGED items
       ELSE /\ items' = <<>>
            /\ hasLoaded' = FALSE
            /\ sent' = <<>>
            /\ UNCHANGED <<isLoadingNFTs, osError, loading>>
  /\ UNCHANGED <<walletVars, enrichVars, listVariant, activeModal, listingPrice,
                 isProcessing, submit>>

\* the refresh button, reachable while no modal covers the page: loadData()
Refresh ==
  /\ listVariant = "real"
  /\ Rendered
  /\ effectAddress = address
  /\ ~(isLoadingNFTs \/ isLoadingOffers)
  /\ activeModal = ClosedModal
  /\ LoadBegin
  /\ op' = "loadData"
  /\ done' = NoneSettled
  /\ emitted' = <<>>
  /\ UNCHANGED <<walletVars, enrichVars, items, listVariant, activeModal, listingPrice,
                 isProcessing, submit, effectAddress>>

\* fetchOwnedBasePaints settles and loadData goes on: setItems(owned),
\* setHasLoaded(true), then enrichWithMarketData(owned, setItems) unless owned is empty
OwnedAnswerOf(counts) ==
  /\ loading
  /\ op' = "loadData"
  /\ emitted' = <<>>
  /\ loading' = FALSE
  /\ isLoadingNFTs' = FALSE
  /\ hasLoaded' = TRUE
  /\ \/ \E n \in counts :
          /\ items' = OwnedTokens(n)
          /\ UNCHANGED osError
          /\ IF n = 0
               THEN /\ sent' = <<>>
                    /\ done' = Settled("loadData", "resolved", <<>>)
                    /\ UNCHANGED <<input, onProgress, enriched, batchStart, fetched,
                                   snapshots, pending, running, isLoadingOffers>>
               ELSE EnrichBegin(OwnedTokens(n), "setItems")
     \/ \E message \in {"OpenSea NFTs error: 500"} :
          /\ osError' = IF message # "" THEN message ELSE "Failed to fetch NFTs"
          /\ items' = <<>>
          /\ sent' = <<>>
          /\ done' = Settled("loadData", "resolved", <<>>)
          /\ UNCHANGED <<input, onProgress, enriched, batchStart, fetched,
                         snapshots, pending, running, isLoadingOffers>>
  /\ UNCHANGED <<walletVars, variant, query, floor, mint, peer, listVariant,
                 activeModal,
                 listingPrice,
                 isProcessing, submit, effectAddress>>

\* the wallet owns up to MaxOwned tokens
OwnedAnswer == OwnedAnswerOf(0..MaxOwned)

\* the Accept button of a card: item.bestOffer > 0 (real variant: && item.bestOfferOrderHash)
AcceptShown(item) ==
  /\ item.bestOffer[1] > 0
  /\ listVariant = "real" => item.bestOfferOrderHash \notin {Absent, Undefined}

\* a card button; the open modal covers the page, so a card is clicked only without one
openModal(type, item) ==
  /\ Rendered
  /\ effectAddress = address \/ listVariant = "mock"
  /\ activeModal = ClosedModal
  /\ type = "accept" => AcceptShown(item)
  /\ activeModal' = [type |-> type, item |-> item]
  /\ listingPrice' = PriceText(item)
  /\ op' = "openModal"
  /\ done' = NoneSettled
  /\ sent' = <<>>
  /\ emitted' = <<>>
  /\ UNCHANGED <<walletVars, enrichVars, items, listVariant, hasLoaded, isProcessing,
                 isLoadingNFTs, osError, loading, submit, effectAddress>>

\* the user edits the price input of the list modal
setListingPrice(text) ==
  /\ Rendered
  /\ activeModal.type = "list"
  /\ listingPrice' = text
  /\ op' = "setListingPrice"
  /\ done' = NoneSettled
  /\ sent' = <<>>
  /\ emitted' = <<>>
  /\ UNCHANGED <<walletVars, enrichVars, items, listVariant, hasLoaded, activeModal,
                 isProcessing, isLoadingNFTs, osError, loading, submit, effectAddress>>

\* the user clicks the backdrop or the X button
closeModal ==
  /\ Rendered
  /\ activeModal # ClosedModal
  /\ IF isProcessing
       THEN UNCHANGED <<activeModal, listingPrice>>
       ELSE activeModal' = ClosedModal /\ listingPrice' = <<>>
  /\ op' = "closeModal"
  /\ done' = NoneSettled
  /\ sent' = <<>>
  /\ emitted' = <<>>
  /\ UNCHANGED <<walletVars, enrichVars, items, listVariant, hasLoaded, isProcessing,
                 isLoadingNFTs, osError, loading, submit, effectAddress>>

\* a handler found no address and calls connect() of the component's useWallet
HandlerConnects ==
  /\ \E c \in Calls :
       /\ calls[c].pc = "idle"
       /\ \A d \in Calls : d < c => calls[d].pc # "idle"
       /\ ConnectBegin(c)
  /\ emitted' = <<>>
  /\ UNCHANGED <<isProcessing, submit>>

\* a handler returns after one error toast
HandlerRejects(msg) ==
  /\ emitted' = <<Toast(msg, "error")>>
  /\ sent' = <<>>
  /\ done' = NoneSettled
  /\ UNCHANGED <<isProcessing, submit, error, isConnecting, calls>>

\* a handler starts its submission: setIsProcessing(true), then the first await
HandlerSubmits(kind, request, price) ==
  /\ isProcessing' = TRUE
  /\ submit' = [kind |-> kind, item |-> activeModal.item, price |-> price]
  /\ sent' = request
  /\ emitted' = <<>>
  /\ done' = NoneSettled
  /\ UNCHANGED <<error, isConnecting, calls>>

\* the confirm button of the list modal
handleListConfirm ==
  /\ Rendered
  /\ activeModal.type = "list"
  /\ ~isProcessing
  /\ op' = "handleListConfirm"
  /\ IF address = Null THEN HandlerConnects
     ELSE IF InvalidPrice(listingPrice) THEN HandlerRejects("Please enter a valid price")
     ELSE IF listVariant = "mock"
       THEN HandlerSubmits("mockList", <<>>, NumberOf(listingPrice))
     ELSE IF provider = "none" THEN HandlerRejects("No wallet provider found")
     ELSE HandlerSubmits("createListing", <<"createListing">>, NumberOf(listingPrice))
  /\ UNCHANGED <<provider, address, initialized, mounted, cleanup, listeners, checks,
                 enrichVars, items, listVariant, hasLoaded, activeModal, listingPrice,
                 isLoadingNFTs, osError, loading, effectAddress>>

\* the confirm button of the accept modal; only the real variant checks the order hash
handleAcceptConfirm ==
  /\ Rendered
  /\ activeModal.type = "accept"
  /\ ~isProcessing
  /\ op' = "handleAcceptConfirm"
  /\ IF address = Null THEN HandlerConnects
     ELSE IF listVariant = "mock" THEN HandlerSubmits("mockAccept", <<>>, NoNum)
     ELSE IF activeModal.item.bestOfferOrderHash \in {Absent, Undefined}
       THEN HandlerRejects("No valid offer found")
     ELSE IF provider = "none" THEN HandlerRejects("No wallet provider found")
     ELSE HandlerSubmits("fulfillOffer", <<"getOrder">>, NoNum)
  /\ UNCHANGED <<provider, address, initialized, mounted, cleanup, listeners, checks,
                 enrichVars, items, listVariant, hasLoaded, activeModal, listingPrice,
                 isLoadingNFTs, osError, loading, effectAddress>>

\* what the catch block of a handler caught while it ran: the message of the error
\* thrown by the awaited submission, Null when nothing was thrown
Caught(message) == [threw |-> message]

\* mutant: closeModal() called by the handler reads the current isProcessing (true)
HandlerCloses_seesProcessing == UNCHANGED <<activeModal, listingPrice>>

\* closeModal() as the handler calls it: its closure still holds isProcessing = false
HandlerCloses == activeModal' = ClosedModal /\ listingPrice' = <<>>

\* createListing settles (real variant)
ListingSettled ==
  /\ submit.kind = "createListing"
  /\ op' = "handleListConfirm"
  /\ submit' = NoSubmit
  /\ isProcessing' = FALSE
  /\ sent' = <<>>
  /\ \/ /\ items' = [k \in 1..Len(items) |->
                       IF items[k].id = submit.item.id
                         THEN [items[k] EXCEPT !.isListed = TRUE, !.listPrice = submit.price]
                         ELSE items[k]]
        /\ emitted' = <<Toast("Listed", "success")>>
        /\ HandlerCloses
        /\ done' = Settled("handleListConfirm", "resolved", Caught(Null))
     \/ \E message \in SubmitErrors :
          /\ emitted' = <<Toast(IF IncludesRejected(message) THEN "Listing cancelled"
                                ELSE IF message # "" THEN message
                                ELSE "Failed to create listing", "error")>>
          /\ done' = Settled("handleListConfirm", "resolved", Caught(message))
          /\ UNCHANGED <<items, activeModal, listingPrice>>
  /\ UNCHANGED <<walletVars, enrichVars, listVariant, hasLoaded, isLoadingNFTs,
                 osError, loading, effectAddress>>

\* fulfillOffer settles (real variant)
AcceptSettled ==
  /\ submit.kind = "fulfillOffer"
  /\ op' = "handleAcceptConfirm"
  /\ submit' = NoSubmit
  /\ isProcessing' = FALSE
  /\ sent' = <<>>
  /\ \/ /\ items' = SelectSeq(items, LAMBDA it : it.id # submit.item.id)
        /\ emitted' = <<Toast("Sold", "success")>>
        /\ HandlerCloses
        /\ done' = Settled("handleAcceptConfirm", "resolved", Caught(Null))
     \/ \E message \in SubmitErrors :
          /\ emitted' = <<Toast(IF IncludesRejected(message) THEN "Transaction cancelled"
                                ELSE IF message # "" THEN message
                                ELSE "Failed to accept offer", "error")>>
          /\ done' = Settled("handleAcceptConfirm", "resolved", Caught(message))
          /\ UNCHANGED <<items, activeModal, listingPrice>>
  /\ UNCHANGED <<walletVars, enrichVars, listVariant, hasLoaded, isLoadingNFTs,
                 osError, loading, effectAddress>>

\* the timers of the mock variant run out: onUpdateItem / onRemoveItem, toast, close
MockSettled ==
  /\ submit.kind \in {"mockList", "mockAccept"}
  /\ op' = IF submit.kind = "mockList" THEN "handleListConfirm" ELSE "handleAcceptConfirm"
  /\ submit' = NoSubmit
  /\ isProcessing' = FALSE
  /\ sent' = <<>>
  /\ emitted' = IF submit.kind = "mockList"
                  THEN <<PropCall("onUpdateItem", submit.item.id), Toast("Listed", "success")>>
                  ELSE <<PropCall("onRemoveItem", submit.item.id), Toast("Sold", "success")>>
  /\ HandlerCloses
  /\ done' = Settled(op', "resolved", Caught(Null))
  /\ UNCHANGED <<walletVars, enrichVars, items, listVariant, hasLoaded, isLoadingNFTs,
                 osError, loading, effectAddress>>

\* -------------------------------------------------------- FeaturedCanvases
\* what fetchFloorListings(8) can resolve to; it catches every error and resolves to []
FLOOR_LISTINGS == << FloorListing("0xh1", 703), FloorListing("0xh2", 701) >>
FloorAnswers == {<<>>, SubSeq(FLOOR_LISTINGS, 1, 1), FLOOR_LISTINGS}

\* a step of FeaturedCanvases leaves CanvasList and useOpenSea's shared state alone
FloorFrame ==
  UNCHANGED <<variant, input, onProgress, enriched, batchStart, pending, running,
              fetched, snapshots, isLoadingOffers, query, mint, peer, items, listVars>>

\* mutant: the purchase drops the first card of the list
WithoutListing_dropsFirst(list, hash) == Tail(list)

\* prev.filter(i => i.orderHash !== item.orderHash)
WithoutListing(list, hash) == SelectSeq(list, LAMBDA i : i.orderHash # hash)

\* load() up to its await: setIsLoading(true); fetchFloorListings(8)
LoadListings ==
  /\ floor' = [floor EXCEPT !.mounted = TRUE, !.isLoading = TRUE, !.loading = TRUE]
  /\ sent' = <<"fetchCollectionListings">>
  /\ op' = "load"
  /\ done' = NoneSettled
  /\ emitted' = <<>>
  /\ UNCHANGED walletVars
  /\ FloorFrame

\* useEffect(() => { load(); }, [load])
FloorMount == ~floor.mounted /\ LoadListings

\* the refresh button (disabled while loading) or 'Try again' of the empty view
load == floor.mounted /\ ~floor.isLoading /\ LoadListings

\* fetchFloorListings settles: setItems(listings); setIsLoading(false)
LoadSettled ==
  /\ floor.loading
  /\ \E listings \in FloorAnswers :
       floor' = [floor EXCEPT !.items = listings, !.isLoading = FALSE, !.loading = FALSE]
  /\ sent' = <<>>
  /\ op' = "load"
  /\ done' = Settled("load", "resolved", IdleCall)
  /\ emitted' = <<>>
  /\ UNCHANGED walletVars
  /\ FloorFrame

\* mutant: the Buy buttons are never disabled
BuyDisabled_never == FALSE

\* disabled={buyingId !== null} on the Buy button of every card
BuyDisabled == floor.buyingId # Null

\* the Buy button of a card (disabled while buyingId is set): connect first without an
\* address, otherwise setBuyingId and the await of fulfillListing
handleBuy(item) ==
  /\ floor.mounted
  /\ ~floor.isLoading
  /\ \E k \in 1..Len(floor.items) : floor.items[k] = item
  /\ ~BuyDisabled
  /\ op' = "handleBuy"
  /\ IF address = Null
       THEN /\ \E c \in Calls :
                 /\ calls[c].pc = "idle"
                 /\ \A d \in Calls : d < c => calls[d].pc # "idle"
                 /\ ConnectBegin(c)
            /\ emitted' = <<>>
            /\ UNCHANGED floor
     ELSE IF provider = "none"
       THEN /\ emitted' = <<Toast("No wallet provider found", "error")>>
            /\ sent' = <<>>
            /\ done' = Settled("handleBuy", "resolved", Caught(Null))
            /\ UNCHANGED <<floor, error, isConnecting, calls>>
     ELSE /\ floor' = [floor EXCEPT !.buyingId = item.orderHash, !.buy = item]
          /\ sent' = <<"getOrder">>
          /\ emitted' = <<>>
          /\ done' = NoneSettled
          /\ UNCHANGED <<error, isConnecting, calls>>
  /\ UNCHANGED <<provider, address, initialized, mounted, cleanup, listeners, checks>>
  /\ FloorFrame

\* mutant: a failed purchase is submitted again instead of being reported
BuySettled_retries ==
  /\ floor.buy # NoListing
  /\ op' = "handleBuy"
  /\ \/ /\ floor' = [floor EXCEPT
                       !.items = WithoutListing(floor.items, floor.buy.orderHash),
                       !.buyingId = Null, !.buy = NoListing]
        /\ sent' = <<>>
        /\ emitted' = <<Toast("Bought", "success")>>
        /\ done' = Settled("handleBuy", "resolved", Caught(Null))
     \/ \E message \in SubmitErrors :
          /\ floor' = floor
          /\ sent' = <<"getOrder">>
          /\ emitted' = <<>>
          /\ done' = Settled("handleBuy", "resolved", Caught(message))
  /\ UNCHANGED walletVars
  /\ FloorFrame

\* fulfillListing settles: the bought listing leaves the list, or the catch block
\* shows one toast; finally setBuyingId(null)
BuySettled ==
  /\ floor.buy # NoListing
  /\ op' = "handleBuy"
  /\ sent' = <<>>
  /\ \/ /\ floor' = [floor EXCEPT
                       !.items = WithoutListing(floor.items, floor.buy.orderHash),
                       !.buyingId = Null, !.buy = NoListing]
        /\ emitted' = <<Toast("Bought", "success")>>
        /\ done' = Settled("handleBuy", "resolved", Caught(Null))
     \/ \E message \in SubmitErrors :
          /\ floor' = [floor EXCEPT !.buyingId = Null, !.buy = NoListing]
          /\ emitted' = <<Toast(IF IncludesRejected(message) THEN "Purchase cancelled"
                                ELSE IF message # "" THEN message
                                ELSE "Failed to complete purchase", "error")>>
          /\ done' = Settled("handleBuy", "resolved", Caught(message))
  /\ UNCHANGED walletVars
  /\ FloorFrame

ListIdle ==
  /\ hasLoaded = FALSE
  /\ activeModal = ClosedModal
  /\ listingPrice = <<>>
  /\ isProcessing = FALSE
  /\ isLoadingNFTs = FALSE
  /\ osError = Null
  /\ loading = FALSE
  /\ submit = NoSubmit
  /\ effectAddress = "unmounted"

PortfolioInit ==
  /\ provider \in {"none", "events"}
  /\ address = Null
  /\ isConnecting = FALSE
  /\ error = Null
  /\ initialized = FALSE
  /\ mounted = FALSE
  /\ cleanup = FALSE
  /\ listeners = {}
  /\ checks = 0
  /\ calls = [c \in Calls |-> IdleCall]
  /\ sent = <<>>
  /\ op = "init"
  /\ done = NoneSettled
  /\ emitted = <<>>
  /\ EnrichIdle
  /\ input = <<>>
  /\ \/ listVariant = "real" /\ variant \in {"rest", "sdk"} /\ items = <<>>
     \/ listVariant = "mock" /\ variant = "rest" /\ items \in {PORTFOLIO_ITEMS, OFFERED_ITEMS}
  /\ ListIdle

\* the wallet of the portfolio runs holds one account
ListAccounts == {<<>>, <<"0xA1">>}

\* no [address] effect is pending (the effects of the mount run in either order)
EffectsFlushed == listVariant = "mock" \/ effectAddress = address \/ ~mounted

\* React flushes a pending [address] effect before it handles the next event, settled
\* request or timer
PortfolioNext ==
  \/ AddressEffect
  \/ EffectsFlushed /\ MountEffect
  \/ EffectsFlushed /\ CheckAnswer(ListAccounts)
  \/ EffectsFlushed /\ handleAccountsChanged(ListAccounts)
  \/ EffectsFlushed /\ Refresh
  \/ EffectsFlushed /\ OwnedAnswer
  \/ EffectsFlushed /\ \E k \in 1..MaxOwned : FetchComplete(k)
  \/ EffectsFlushed /\ \E type \in {"list", "accept"}, k \in 1..Len(items) :
                         openModal(type, items[k])
  \/ EffectsFlushed /\ \E text \in ListingInputs : setListingPrice(text)
  \/ EffectsFlushed /\ closeModal
  \/ EffectsFlushed /\ handleListConfirm
  \/ EffectsFlushed /\ handleAcceptConfirm
  \/ EffectsFlushed /\ ListingSettled
  \/ EffectsFlushed /\ AcceptSettled
  \/ EffectsFlushed /\ MockSettled

SpecPortfolio == PortfolioInit /\ [][PortfolioNext]_vars

\* the page with the real CanvasList and FeaturedCanvases on it; the wallet answers
\* for one account
OrdersInit ==
  /\ PortfolioInit
  /\ listVariant = "real"
  /\ variant = "rest"
  /\ provider = "events"

OrdersNext ==
  \/ AddressEffect
  \/ EffectsFlushed /\ MountEffect
  \/ EffectsFlushed /\ CheckAnswer(ListAccounts)
  \/ EffectsFlushed /\ OwnedAnswer
  \/ EffectsFlushed /\ \E k \in 1..MaxOwned : FetchComplete(k)
  \/ EffectsFlushed /\ \E type \in {"list", "accept"}, k \in 1..Len(items) :
                         openModal(type, items[k])
  \/ EffectsFlushed /\ \E text \in ListingInputs : setListingPrice(text)
  \/ EffectsFlushed /\ closeModal
  \/ EffectsFlushed /\ handleListConfirm
  \/ EffectsFlushed /\ handleAcceptConfirm
  \/ EffectsFlushed /\ ListingSettled
  \/ EffectsFlushed /\ AcceptSettled
  \/ EffectsFlushed /\ FloorMount
  \/ EffectsFlushed /\ load
  \/ EffectsFlushed /\ LoadSettled
  \/ EffectsFlushed /\ \E k \in 1..Len(floor.items) : handleBuy(floor.items[k])
  \/ EffectsFlushed /\ BuySettled

SpecOrders == OrdersInit /\ [][OrdersNext]_vars

\* ------------------------------------------------------------- MintSection
\* a step of MintSection leaves the other components and useOpenSea alone
MintFrame ==
  UNCHANGED <<variant, input, onProgress, enriched, batchStart, pending, running,
              fetched, snapshots, isLoadingOffers, query, floor, peer, items,
              listVars>>

\* a control of the mint card that neither talks to the wallet nor shows a toast
MintControl(name) ==
  /\ ~mint.showModal
  /\ op' = name
  /\ sent' = <<>>
  /\ done' = NoneSettled
  /\ emitted' = <<>>
  /\ UNCHANGED walletVars
  /\ MintFrame

\* the segmented selector
setMode(m) ==
  /\ mint.mode # m
  /\ mint' = [mint EXCEPT !.mode = m]
  /\ MintControl("setMode")

\* the + button (disabled while minting)
handleIncrement ==
  /\ ~mint.isMinting
  /\ mint.quantity < MaxQuantity
  /\ mint' = [mint EXCEPT !.quantity = @ + 1]
  /\ MintControl("handleIncrement")

\* the - button (disabled while minting): Math.max(1, q - 1)
handleDecrement ==
  /\ ~mint.isMinting
  /\ mint' = [mint EXCEPT !.quantity = IF @ - 1 > 1 THEN @ - 1 ELSE 1]
  /\ mint'.quantity # mint.quantity
  /\ MintControl("handleDecrement")

\* mutant: the mint starts although no address is connected
handleMint_withoutAddress ==
  /\ ~mint.isMinting
  /\ ~mint.showModal
  /\ op' = "handleMint"
  /\ mint' = [mint EXCEPT !.isMinting = TRUE, !.timer = TRUE, !.label = mint.mode]
  /\ sent' = <<>>
  /\ done' = Settled("handleMint", "resolved", IdleCall)
  /\ emitted' = <<>>
  /\ UNCHANGED walletVars
  /\ MintFrame

\* the mint button (disabled while minting, covered by the success modal): connect()
\* without an address, otherwise setIsMinting(true) and the 2 s timer
handleMint ==
  /\ ~mint.isMinting
  /\ ~mint.showModal
  /\ op' = "handleMint"
  /\ emitted' = <<>>
  /\ IF address = Null
       THEN /\ \E c \in Calls :
                 /\ calls[c].pc = "idle"
                 /\ \A d \in Calls : d < c => calls[d].pc # "idle"
                 /\ ConnectBegin(c)
            /\ UNCHANGED mint
       ELSE /\ mint' = [mint EXCEPT !.isMinting = TRUE, !.timer = TRUE, !.label = mint.mode]
            /\ sent' = <<>>
            /\ done' = Settled("handleMint", "resolved", IdleCall)
            /\ UNCHANGED <<error, isConnecting, calls>>
  /\ UNCHANGED <<provider, address, initialized, mounted, cleanup, listeners, checks>>
  /\ MintFrame

\* the timer of handleMint fires: setIsMinting(false), setShowModal(true), one toast
\* with the mode its closure holds
MintTimer ==
  /\ mint.timer
  /\ mint' = [mint EXCEPT !.isMinting = FALSE, !.showModal = TRUE, !.timer = FALSE]
  /\ op' = "mintTimer"
  /\ sent' = <<>>
  /\ done' = NoneSettled
  /\ emitted' = <<Toast(IF mint.label = "current" THEN "Successfully minted (Mock)"
                        ELSE "Successfully pre-ordered (Mock)", "success")>>
  /\ UNCHANGED walletVars
  /\ MintFrame

\* closeModal of MintSection: the backdrop or the X button of the success modal
MintCloseModal ==
  /\ mint.showModal
  /\ mint' = [mint EXCEPT !.showModal = FALSE, !.quantity = 1]
  /\ op' = "closeMintModal"
  /\ sent' = <<>>
  /\ done' = NoneSettled
  /\ emitted' = <<>>
  /\ UNCHANGED walletVars
  /\ MintFrame

\* MintSection with its useWallet instance; the wallet answers for one account
MintInit ==
  /\ PortfolioInit
  /\ listVariant = "real"
  /\ variant = "rest"

MintNext ==
  \/ MountEffect
  \/ CheckAnswer(ListAccounts)
  \/ handleAccountsChanged(ListAccounts)
  \/ \E m \in {"current", "in-progress"} : setMode(m)
  \/ handleIncrement
  \/ handleDecrement
  \/ handleMint
  \/ MintTimer
  \/ MintCloseModal

\* the 2 s timer of a started mint runs out
SpecMint == MintInit /\ [][MintNext]_vars /\ WF_vars(MintTimer)

\* a wallet with one token more than a batch holds, so that the enrichment run of its
\* load takes two batches; each token has no orders or one standing offer
SaleTokens == BATCH_REST + 1
SaleResponses ==
  { [listing |-> NoOrder, offer |-> NoOrder],
    [listing |-> Order(<<>>, <<3>>, "0xl2", SEAPORT_1_6),
     offer |-> Order(<<120>>, <<4>>, "0xo1", SEAPORT_1_6)] }

SaleInit ==
  /\ PortfolioInit
  /\ listVariant = "real"
  /\ variant = "rest"
  /\ provider = "events"

\* the portfolio is loaded once and offers are accepted while its enrichment runs
SaleNext ==
  \/ AddressEffect
  \/ EffectsFlushed /\ MountEffect
  \/ EffectsFlushed /\ CheckAnswer(ListAccounts)
  \/ EffectsFlushed /\ OwnedAnswerOf({SaleTokens})
  \/ EffectsFlushed /\ \E k \in 1..SaleTokens :
                         /\ FetchComplete(k)
                         /\ \E res \in SaleResponses :
                              \/ running' /\ fetched'[k] = res
                              \/ ~running' /\ done'.value.fetched[k] = res
  \/ EffectsFlushed /\ \E k \in 1..Len(items) : openModal("accept", items[k])
  \/ EffectsFlushed /\ closeModal
  \/ EffectsFlushed /\ handleAcceptConfirm
  \/ EffectsFlushed /\ AcceptSettled

SpecSale == SaleInit /\ [][SaleNext]_vars

EnrichInit ==
  /\ provider = "events"
  /\ address = Null
  /\ isConnecting = FALSE
  /\ error = Null
  /\ initialized = FALSE
  /\ mounted = FALSE
  /\ cleanup = FALSE
  /\ listeners = {}
  /\ checks = 0
  /\ calls = [c \in Calls |-> IdleCall]
  /\ sent = <<>>
  /\ op = "init"
  /\ done = NoneSettled
  /\ EnrichIdle
  /\ variant \in {"rest", "sdk"}
  /\ \E n \in 0..MaxItems : input = OwnedTokens(n)
  /\ items = <<>>
  /\ emitted = <<>>
  /\ listVariant = "real"
  /\ ListIdle

EnrichNext ==
  \/ enrichWithMarketData
  \/ \E k \in 1..MaxItems : FetchComplete(k)

SpecEnrich == EnrichInit /\ [][EnrichNext]_vars

\* every fetch that was started is answered at some time
SpecEnrichFair ==
  EnrichInit /\ [][EnrichNext]_vars /\ \A k \in 1..MaxItems : WF_vars(FetchComplete(k))

WalletInit ==
  /\ provider \in {"none", "basic", "events"}
  /\ address = Null
  /\ isConnecting = FALSE
  /\ error = Null
  /\ initialized = FALSE
  /\ mounted = FALSE
  /\ cleanup = FALSE
  /\ listeners = {}
  /\ checks = 0
  /\ calls = [c \in Calls |-> IdleCall]
  /\ sent = <<>>
  /\ op = "init"
  /\ done = NoneSettled
  /\ EnrichIdle
  /\ variant = "rest"
  /\ input = <<>>
  /\ items = <<>>
  /\ emitted = <<>>
  /\ listVariant = "real"
  /\ ListIdle

WalletNext ==
  \/ MountEffect
  \/ Teardown
  \/ CheckAnswer(AccountLists)
  \/ handleAccountsChanged(AccountLists)
  \/ \E chainId \in ChainIds : handleChainChanged(chainId)
  \/ \E c \in Calls : connect(c)
  \/ \E c \in Calls : ConnectAccounts(c)
  \/ \E c \in Calls : ConnectChainId(c)
  \/ \E c \in Calls : ConnectSwitch(c)
  \/ \E c \in Calls : ConnectAdd(c)
  \/ disconnect

SpecWallet == WalletInit /\ [][WalletNext]_vars

\* ------------------------------------------------- two useWallet instances
\* a step of the second instance or of the provider leaves the components alone
PeerFrame ==
  /\ emitted' = <<>>
  /\ UNCHANGED <<variant, input, onProgress, enriched, batchStart, pending, running,
                 fetched, snapshots, isLoadingOffers, query, floor, mint, items,
                 listVars>>

\* the mount effect of the second instance: its eth_accounts check and its listeners
PeerMount ==
  /\ ~peer.mounted
  /\ peer' = [peer EXCEPT !.mounted = TRUE,
                          !.listening = (provider = "events"),
                          !.checking = (provider # "none")]
  /\ sent' = IF provider # "none" THEN <<"eth_accounts">> ELSE <<>>
  /\ op' = "useEffect"
  /\ done' = NoneSettled
  /\ UNCHANGED walletVars
  /\ PeerFrame

\* the eth_accounts check of the second instance settles
PeerCheckAnswer ==
  /\ peer.checking
  /\ \E ok \in BOOLEAN, accounts \in {<<>>, <<"0xA1">>} :
       LET first == IF ok /\ Len(accounts) > 0 THEN accounts[1] ELSE Null
       IN /\ peer' = [peer EXCEPT !.checking = FALSE,
                                  !.address = IF first # Null THEN first ELSE @]
          /\ done' = Settled("checkIfWalletIsConnected", "resolved", [returned |-> first])
  /\ sent' = <<>>
  /\ op' = "checkIfWalletIsConnected"
  /\ UNCHANGED walletVars
  /\ PeerFrame

\* the provider emits accountsChanged: the handler of every instance that registered
\* one runs setAddress(accounts[0] || null)
AccountsChanged(lists) ==
  /\ "accountsChanged" \in listeners \/ peer.listening
  /\ \E accounts \in lists :
       LET first == IF Len(accounts) > 0 THEN accounts[1] ELSE Null
       IN /\ address' = IF "accountsChanged" \in listeners THEN first ELSE address
          /\ peer' = IF peer.listening THEN [peer EXCEPT !.address = first] ELSE peer
  /\ sent' = <<>>
  /\ op' = "handleAccountsChanged"
  /\ done' = NoneSettled
  /\ UNCHANGED <<provider, isConnecting, error, initialized, mounted, cleanup,
                 listeners, checks, calls>>
  /\ PeerFrame

PeersNext ==
  \/ MountEffect
  \/ PeerMount
  \/ CheckAnswer(ListAccounts)
  \/ PeerCheckAnswer
  \/ AccountsChanged(ListAccounts)
  \/ \E c \in Calls : connect(c)
  \/ \E c \in Calls : ConnectAccounts(c)
  \/ \E c \in Calls : ConnectChainId(c)
  \/ \E c \in Calls : ConnectSwitch(c)
  \/ \E c \in Calls : ConnectAdd(c)
  \/ disconnect

\* every request an instance awaits is answered
SpecPeers ==
  /\ WalletInit
  /\ [][PeersNext]_vars
  /\ WF_vars(CheckAnswer(ListAccounts))
  /\ WF_vars(PeerCheckAnswer)
  /\ WF_vars(\E c \in Calls : ConnectAccounts(c) \/ ConnectChainId(c)
                                \/ ConnectSwitch(c) \/ ConnectAdd(c))

PagesInit ==
  /\ provider = "events"
  /\ address = "0xA1"
  /\ isConnecting = FALSE
  /\ error = Null
  /\ initialized = FALSE
  /\ mounted = FALSE
  /\ cleanup = FALSE
  /\ listeners = {}
  /\ checks = 0
  /\ calls = [c \in Calls |-> IdleCall]
  /\ sent = <<>>
  /\ op = "init"
  /\ done = NoneSettled
  /\ EnrichIdle
  /\ variant \in {"rest", "sdk"}
  /\ input = <<>>
  /\ items = <<>>
  /\ emitted = <<>>
  /\ listVariant = "real"
  /\ ListIdle

PagesNext ==
  \/ fetchOwnedBasePaints
  \/ PageAnswer

\* every page request is answered or fails
SpecPages == PagesInit /\ [][PagesNext]_vars /\ WF_vars(PageAnswer)

\* ---------------------------------------------------------------- claims
Ceil(n, b) == (n + b - 1) \div b

RECURSIVE Pow10(_)
Pow10(e) == IF e = 0 THEN 1 ELSE 10 * Pow10(e - 1)

\* enrichment has written position's object (the key bestOfferOrderHash exists)
Annotated(item) == item.bestOfferOrderHash # Absent

\* the run of enrichWithMarketData settled in the last step
EnrichSettled == done.fn = "enrichWithMarketData"

\* the array, the answers and the snapshots of the run in progress or just finished
RunItems == IF EnrichSettled THEN done.value.result ELSE enriched
RunFetched == IF EnrichSettled THEN done.value.fetched ELSE fetched
RunSnapshots == IF EnrichSettled THEN done.value.snapshots ELSE snapshots

\* C1: a run over N items calls onProgress exactly ceil(N / BATCH) times (0 for N = 0);
\* every snapshot has length N, keeps each annotated item of the earlier snapshots
\* unchanged, snapshot k has the items of batch k annotated, and the last snapshot
\* equals the returned list, in which every item is annotated.
C1_ProgressSnapshots ==
  LET n == Len(input)
      count == Len(RunSnapshots)
  IN /\ count <= Ceil(n, BATCH)
     /\ \A k \in 1..count :
          /\ Len(RunSnapshots[k]) = n
          /\ \A pos \in 1..n :
               /\ ((k - 1) * BATCH < pos /\ pos <= k * BATCH) =>
                    Annotated(RunSnapshots[k][pos])
               /\ \A j \in 1..(k - 1) :
                    Annotated(RunSnapshots[j][pos]) =>
                      RunSnapshots[k][pos] = RunSnapshots[j][pos]
     /\ EnrichSettled =>
          /\ done.outcome = "resolved"
          /\ count = Ceil(n, BATCH)
          /\ Len(RunItems) = n
          /\ n > 0 => RunSnapshots[count] = RunItems
          /\ \A pos \in 1..n : Annotated(RunItems[pos])

C1_TwoBatchesDone == EnrichSettled /\ Len(RunSnapshots) = 2 /\ Len(input) > BATCH

\* the two fetches of a token found nothing: each failed or returned no order
NoData(res) == res.listing.kind \in {"error", "none"} /\ res.offer.kind \in {"error", "none"}

\* C4: an item whose listing fetch and offer fetch each fail or return no order is
\* annotated isListed = false, listPrice = undefined, bestOffer = 0, the run does not
\* reject, and the step that writes it leaves every other position as it was.
C4_NoDataDefaults ==
  [][ /\ done'.outcome # "rejected"
      /\ \A k \in 1..Len(RunItems') :
           NoData(RunFetched'[k]) =>
             /\ RunItems'[k].isListed = FALSE
             /\ RunItems'[k].listPrice = NoNum
             /\ RunItems'[k].bestOffer = Zero
             /\ Annotated(RunItems'[k])
             /\ RunFetched[k] # RunFetched'[k] =>
                  \A j \in (1..Len(RunItems')) \ {k} : RunItems'[j] = RunItems[j] ]_vars

C4_FailedBesideListed ==
  /\ EnrichSettled
  /\ \E k, j \in 1..Len(RunItems) :
       /\ RunFetched[k].listing.kind = "error" /\ RunFetched[k].offer.kind = "error"
       /\ RunItems[j].isListed /\ RunItems[j].bestOffer # Zero

\* the number p = <<m, s>> is raw * 10^-decimals
IsPrice(p, raw, decimals) == p[2] <= decimals /\ p[1] * Pow10(decimals - p[2]) = raw

\* an order with a price; the SDK variant takes a price only with its decimals
Priced(order) ==
  order.kind = "order" /\ order.value # <<>> /\ (variant = "sdk" => order.decimals # <<>>)

DecimalsOf(order) == IF order.decimals = <<>> THEN DEFAULT_DECIMALS ELSE order.decimals[1]

\* C5: after the run, an item is listed at the fetched price exactly when its
\* best-listing fetch returned a priced listing, and is otherwise unlisted with
\* listPrice undefined; bestOffer is the fetched offer price or 0.
C5_ListingMatchesFetch ==
  EnrichSettled =>
    \A k \in 1..Len(input) :
      LET item == RunItems[k]
          res == RunFetched[k]
      IN /\ item.id = input[k].id
         /\ IF Priced(res.listing)
              THEN /\ item.isListed
                   /\ item.listPrice # NoNum
                   /\ IsPrice(item.listPrice, res.listing.value[1], DecimalsOf(res.listing))
              ELSE ~item.isListed /\ item.listPrice = NoNum
         /\ IF Priced(res.offer)
              THEN IsPrice(item.bestOffer, res.offer.value[1], DecimalsOf(res.offer))
              ELSE item.bestOffer = Zero

\* tokens 701 and 703, a 0.025 ETH listing only for 701
C5_Example701 ==
  /\ EnrichSettled
  /\ Len(input) = 2
  /\ RunItems[1].id = 701 /\ RunItems[1].isListed /\ RunItems[1].listPrice = <<25, 3>>
  /\ RunItems[2].id = 703 /\ ~RunItems[2].isListed /\ RunItems[2].listPrice = NoNum

\* how often connect() call with this log asked the provider for method
CountOf(log, method) == Cardinality({i \in 1..Len(log) : log[i].method = method})

\* a connect() call settled in the last step
ConnectSettled == done.fn = "connect"

\* C2: when eth_chainId answers a value other than 0x2105, connect() issues exactly
\* one wallet_switchEthereumChain before it resolves, and wallet_addEthereumChain at
\* most once, after the switch request and only when that request failed with code
\* 4902; when the chain id is 0x2105 it issues neither request.
C2_ChainSwitchRequests ==
  /\ \A c \in Calls :
       /\ CountOf(calls[c].log, "wallet_switchEthereumChain") <= 1
       /\ CountOf(calls[c].log, "wallet_addEthereumChain") <= 1
  /\ ConnectSettled =>
       LET call == done.value
           log == call.log
           switches == {i \in 1..Len(log) : log[i].method = "wallet_switchEthereumChain"}
           adds == {i \in 1..Len(log) : log[i].method = "wallet_addEthereumChain"}
           asked == {i \in 1..Len(log) : log[i].method = "eth_chainId"}
       IN /\ call.chainId \notin {Null, BASE_CHAIN_ID} =>
               /\ Cardinality(switches) = 1
               /\ \A s \in switches : \E a \in asked :
                    a < s /\ log[a].result = "ok" /\ log[s].result # "pending"
          /\ Cardinality(adds) <= 1
          /\ \A a \in adds : \E s \in switches :
               s < a /\ log[s].result = "rejected" /\ log[s].code = UNRECOGNIZED_CHAIN
          /\ call.chainId = BASE_CHAIN_ID => switches = {} /\ adds = {}

C2_AddedAfterSwitch4902 ==
  /\ ConnectSettled
  /\ done.value.chainId = OTHER_CHAIN_ID
  /\ CountOf(done.value.log, "wallet_addEthereumChain") = 1

\* C3: disconnect() sets address to null, issues no provider request and leaves
\* isConnecting, error and the registered provider listeners unchanged.
C3_DisconnectFrame ==
  [][ op' = "disconnect" =>
        /\ address' = Null
        /\ sent' = <<>>
        /\ isConnecting' = isConnecting
        /\ error' = error
        /\ listeners' = listeners ]_vars

C3_DisconnectWhileConnecting ==
  /\ op = "disconnect"
  /\ address = Null
  /\ isConnecting
  /\ listeners # {}

RequestFailed(log) ==
  \E i \in 1..Len(log) :
    /\ log[i].result = "rejected"
    /\ ~(log[i].method = "wallet_switchEthereumChain" /\ log[i].code = UNRECOGNIZED_CHAIN)

\* the chain differed from Base and the switch / add flow went through
MismatchResolved(call) ==
  /\ call.chainId = OTHER_CHAIN_ID
  /\ call.log[Len(call.log)].result = "ok"

\* C10: whenever a provider request of connect() fails (accounts, chain id, switch
\* with a code other than 4902, add), error is a non-null string once connect() has
\* resolved; a chain mismatch resolved by the switch / add flow leaves error null.
C10_FailureSetsError ==
  [][ done'.fn = "connect" =>
        /\ RequestFailed(done'.value.log) => error' # Null
        /\ (MismatchResolved(done'.value) /\ error = Null) => error' = Null ]_vars

\* C6: in every state of the portfolio item list (after the owned-token load, after
\* each enrichment snapshot, after a successful listing, after a sale) every item with
\* isListed = true has a defined listPrice.
C6_ListedHasPrice ==
  /\ \A k \in 1..Len(items) : items[k].isListed => items[k].listPrice # NoNum
  /\ \A k \in 1..Len(enriched) : enriched[k].isListed => enriched[k].listPrice # NoNum

\* a token the marketplace reported unlisted was listed from the modal at 0.03 ETH
C6_ListedFromModal ==
  /\ listVariant = "real"
  /\ op = "handleListConfirm"
  /\ done.fn = "handleListConfirm"
  /\ \E k \in 1..Len(items) : items[k].isListed /\ items[k].listPrice = <<3, 2>>

\* a value is there: neither a missing key nor undefined
Present(value) == value \notin {Absent, Undefined}

\* C7: each item of the portfolio item list has bestOfferOrderHash and
\* bestOfferProtocolAddress either both present or both absent.
C7_OfferOrderFieldsTogether ==
  \A k \in 1..Len(items) :
    Present(items[k].bestOfferOrderHash) <=> Present(items[k].bestOfferProtocolAddress)

\* C8: confirming the accept modal, with a wallet connected, for an item without
\* bestOfferOrderHash shows one error toast, issues no request, leaves isProcessing
\* false, starts no submission and leaves the item list unchanged.
C8_AcceptWithoutHashRejected ==
  [][ ( /\ op' = "handleAcceptConfirm"
        /\ activeModal.type = "accept"
        /\ submit = NoSubmit
        /\ address # Null
        /\ ~Present(activeModal.item.bestOfferOrderHash) ) =>
        /\ Len(emitted') = 1
        /\ emitted'[1].call = "onShowToast" /\ emitted'[1].type = "error"
        /\ sent' = <<>>
        /\ isProcessing' = FALSE
        /\ submit' = NoSubmit
        /\ items' = items ]_vars

\* C11: the wallet session is reset on disconnect and on chain mismatch: after
\* disconnect(), and after the provider reports a change to a chain other than Base
\* (0x2105), the address of the hook is null.
C11_SessionReset ==
  [][ (disconnect \/ handleChainChanged(OTHER_CHAIN_ID)) => address' = Null ]_vars

\* the eth_accounts check settled in the last step
CheckSettled == done.fn = "checkIfWalletIsConnected"

\* C12: on mount the hook issues only eth_accounts (no eth_requestAccounts, no chain
\* request), and nothing without a provider; when the answer has an account the
\* address becomes the first account, otherwise (empty answer, error) the address is
\* left as it was; no step of the mount check sets error.
C12_SilentMountCheck ==
  [][ /\ op' = "useEffect" =>
           /\ sent' \in {<<>>, <<"eth_accounts">>}
           /\ provider = "none" => sent' = <<>>
           /\ address' = address
           /\ error' = error
      /\ CheckSettled' =>
           /\ sent' = <<>>
           /\ error' = error
           /\ address' = IF done'.value.returned # Null THEN done'.value.returned
                          ELSE address ]_vars

\* the mount check restored the session of account 0xA1
C12_SessionRestored ==
  /\ CheckSettled
  /\ done.value.returned = "0xA1"
  /\ address = "0xA1"
  /\ error = Null

\* C13: whenever the component is mounted and the provider supports on(), the
\* accountsChanged and chainChanged handlers of the hook are registered, for every
\* mount / teardown sequence (a teardown followed by a re-run of the effect on the
\* same hook instance included); while it is not mounted no handler is registered.
C13_ListenersWhileMounted ==
  /\ (mounted /\ provider = "events") => listeners = {"accountsChanged", "chainChanged"}
  /\ ~mounted => listeners = {}

\* C14: without a frame wallet provider and without window.ethereum, connect() sets
\* error to the no-wallet message, issues no provider request, leaves the address
\* unchanged and ends with isConnecting = false.
C14_NoProviderAborts ==
  [][ (provider = "none" /\ op' = "connect") =>
        /\ error' = NO_WALLET_MSG
        /\ sent' = <<>>
        /\ address' = address
        /\ isConnecting' = FALSE
        /\ done'.fn = "connect" /\ done'.outcome = "resolved"
        /\ \A c \in Calls : calls'[c] = IdleCall ]_vars

C14_NoWalletMessageShown ==
  /\ provider = "none"
  /\ op = "connect"
  /\ error = NO_WALLET_MSG
  /\ ~isConnecting
  /\ address = Null

\* the owned-token query settled in the last step
QuerySettled == done.fn = "fetchOwnedBasePaints"

\* C15: the owned-token query requests a further page only when the previous
\* response carried a next cursor and fewer tokens than the cap (500 REST, 200 SDK)
\* are collected; it returns as soon as a response has no next cursor or the cap is
\* reached, so a query whose requests are answered ends; every returned token
\* belongs to the tracked collection.
C15_PagedUntilCapOrEnd ==
  /\ [][ /\ (query.pc = "await" /\ query'.pc = "await") =>
              /\ query'.next
              /\ ResultCount(query') < ResultCap
              /\ query'.requested = query.requested + 1
              /\ sent' = <<"nfts">>
         /\ (QuerySettled' /\ ~done'.value.failed) =>
              /\ ~done'.value.next \/ ResultCount(done'.value) >= ResultCap
              /\ done'.value.foreign = 0
              /\ sent' = <<>> ]_vars
  /\ (query.pc = "await") ~> (query.pc = "idle")

\* the query stopped at the cap although the last page carried a next cursor
C15_StoppedAtCap ==
  /\ QuerySettled
  /\ done.value.next
  /\ ResultCount(done.value) >= ResultCap
  /\ done.value.requested > 1

\* C16: when the owned-token fetch fails, fetchOwnedBasePaints resolves to an empty
\* list, isLoadingNFTs is false again, the error of the hook holds the failure
\* message, and the portfolio view shows the failure (an error toast or a view other
\* than the one for a wallet that owns no canvases).
C16_LoadFailureSurfaced ==
  [][ (listVariant = "real" /\ op' = "loadData" /\ osError' # Null) =>
        /\ done'.fn = "loadData" /\ done'.outcome = "resolved"
        /\ items' = <<>>
        /\ isLoadingNFTs' = FALSE
        /\ \/ View' # "empty"
           \/ \E i \in 1..Len(emitted') : emitted'[i].type = "error" ]_vars

\* a confirm or buy handler settled in the last step after its awaited submission threw
SubmitHandlers == {"handleListConfirm", "handleAcceptConfirm", "handleBuy"}
SubmissionFailed == done.fn \in SubmitHandlers /\ done.value.threw # Null

\* the toast a handler shows for an error whose message includes 'rejected'
CancelledText(fn) ==
  IF fn = "handleListConfirm" THEN "Listing cancelled"
  ELSE IF fn = "handleAcceptConfirm" THEN "Transaction cancelled"
  ELSE "Purchase cancelled"

\* C17: a handler issues one request when it starts its submission, and when
\* createListing, fulfillOffer or fulfillListing fails the handler sends no further
\* request, shows exactly one error toast (the handler's 'cancelled' text when the
\* message includes 'rejected'), leaves both item lists as they were and clears
\* isProcessing / buyingId together with the awaited submission.
C17_FailedSubmissionReported ==
  [][ /\ SubmissionFailed' =>
           /\ IF done'.fn = "handleBuy"
                THEN floor.buy # NoListing /\ floor.buyingId = floor.buy.orderHash
                ELSE submit.kind \in {"createListing", "fulfillOffer"} /\ isProcessing
           /\ sent' = <<>>
           /\ Len(emitted') = 1
           /\ emitted'[1].call = "onShowToast"
           /\ emitted'[1].type = "error"
           /\ IncludesRejected(done'.value.threw) =>
                emitted'[1].msg = CancelledText(done'.fn)
           /\ items' = items
           /\ floor'.items = floor.items
           /\ IF done'.fn = "handleBuy"
                THEN floor'.buyingId = Null /\ floor'.buy = NoListing
                ELSE isProcessing' = FALSE /\ submit' = NoSubmit
      /\ (submit = NoSubmit /\ submit'.kind \in {"createListing", "fulfillOffer"}) =>
           Len(sent') = 1
      /\ (floor.buy = NoListing /\ floor'.buy # NoListing) => Len(sent') = 1 ]_vars

\* a purchase the user rejected in the wallet was reported as cancelled
C17_PurchaseCancelled ==
  /\ SubmissionFailed
  /\ done.fn = "handleBuy"
  /\ IncludesRejected(done.value.threw)
  /\ emitted = <<Toast("Purchase cancelled", "error")>>
  /\ floor.buyingId = Null
  /\ floor.items = FLOOR_LISTINGS

\* the batch sizes the two variants are stated to have
BatchLimit == IF variant = "rest" THEN 4 ELSE 5

\* C18: while a run of enrichWithMarketData awaits a batch, at most 4 (REST) or 5 (SDK)
\* positions have fetches in flight, every position of an earlier batch has its
\* answer, no position of a later batch has been fetched, and one snapshot has been
\* emitted per finished batch; fetches of a further batch start only in the step in
\* which the last fetch of the current batch completes and its snapshot is emitted.
C18_BatchesSequential ==
  /\ [](running =>
          /\ pending # {}
          /\ Cardinality(pending) <= BatchLimit
          /\ \A j \in 1..Len(enriched) :
               /\ j <= batchStart => (j \notin pending /\ fetched[j] # NoAnswer)
               /\ j > batchStart + BatchLimit =>
                    (j \notin pending /\ fetched[j] = NoAnswer)
          /\ onProgress # "none" => Len(snapshots) * BatchLimit = batchStart)
  /\ [][ (running /\ sent' # <<>>) =>
           /\ Cardinality(pending) = 1
           /\ Len(sent') <= BatchLimit
           /\ Len(sent') = Cardinality(pending')
           /\ batchStart' = batchStart + BatchLimit
           /\ onProgress # "none" => Len(snapshots') = Len(snapshots) + 1 ]_vars

\* the second batch of a six-token list is in flight after the first batch's snapshot
C18_SecondBatchInFlight ==
  /\ running
  /\ Len(input) = 6
  /\ batchStart = BatchLimit
  /\ Cardinality(pending) = 2
  /\ Len(snapshots) = 1

\* what position pos of the array holds once answers were received: the input item
\* annotated with the answer fetched for it, the input item itself before that
Expected(pos, answers) ==
  IF answers[pos] = NoAnswer THEN input[pos] ELSE Annotate(input[pos], answers[pos])

\* C19: in whatever order the fetches of a batch complete, the array of a run and the
\* returned list hold at position i the input item i (same id) annotated with the
\* answer fetched for position i, and snapshot b holds exactly that for the positions
\* of batches 1..b and the input items for the later ones; so the snapshots and the
\* result depend on the input and on the answers only, never on the completion order.
C19_WrittenByIndex ==
  /\ \A pos \in 1..Len(RunItems) :
       /\ RunItems[pos].id = input[pos].id
       /\ RunItems[pos] = Expected(pos, RunFetched)
  /\ \A b \in 1..Len(RunSnapshots) :
       /\ Len(RunSnapshots[b]) = Len(input)
       /\ \A pos \in 1..Len(input) :
            RunSnapshots[b][pos] =
              IF pos <= b * BatchLimit THEN Expected(pos, RunFetched) ELSE input[pos]

\* the fetches of positions 2 and 3 completed, with different answers, before that of
\* position 1
C19_LaterItemFirst ==
  /\ running
  /\ Len(input) >= 3
  /\ pending = {1}
  /\ fetched[2] # fetched[3]
  /\ Priced(fetched[2].listing)
  /\ enriched[2] = Annotate(input[2], fetched[2])
  /\ enriched[1] = input[1]

\* C20: when every started fetch is answered, a run of enrichWithMarketData resolves
\* with isLoadingOffers false; and in every step in which the fetch of a pending
\* position h is not answered, h stays pending, no fetch starts, no snapshot is
\* emitted, the run does not resolve and isLoadingOffers stays true, so a fetch
\* that is never answered holds the run at its batch for ever.
C20_ResolvesUnlessHung ==
  /\ running ~> (EnrichSettled /\ done.outcome = "resolved" /\ ~isLoadingOffers)
  /\ [](running => isLoadingOffers)
  /\ [][ \A h \in pending :
           RunFetched'[h] = NoAnswer =>
             /\ h \in pending'
             /\ running'
             /\ isLoadingOffers'
             /\ batchStart' = batchStart
             /\ snapshots' = snapshots
             /\ sent' = <<>>
             /\ done' = NoneSettled ]_vars

\* the first batch of a six-token list waits for the fetch of position 2 alone
C20_WaitingOnOneFetch ==
  /\ running
  /\ isLoadingOffers
  /\ Len(input) = 6
  /\ batchStart = 0
  /\ pending = {2}
  /\ snapshots = <<>>

\* the confirm handlers of the trade modal, and a submission of theirs that succeeded
ConfirmHandlers == {"handleListConfirm", "handleAcceptConfirm"}
SubmissionSucceeded == done.fn \in ConfirmHandlers /\ done.value.threw = Null

\* the input of the open modal passes the checks of its confirm handler
ValidInput ==
  IF activeModal.type = "list" THEN ~InvalidPrice(listingPrice)
  ELSE listVariant = "real" => activeModal.item.bestOfferOrderHash \notin {Absent, Undefined}

\* C21: the trade modal goes closed -> open -> processing -> closed: it opens only from
\* closed, processing happens only in an open modal, a confirm with an address and
\* valid input sets isProcessing, closeModal during processing changes nothing, a
\* succeeded submission ends with the modal closed and isProcessing false, a failed
\* one with the same modal open and isProcessing false.
C21_ModalLifecycle ==
  /\ [](isProcessing => activeModal # ClosedModal)
  /\ [][ /\ (op' \in ConfirmHandlers /\ submit = NoSubmit /\ address # Null /\ ValidInput) =>
              /\ isProcessing'
              /\ submit' # NoSubmit
              /\ activeModal' = activeModal
         /\ (op' = "closeModal" /\ isProcessing) =>
              (activeModal' = activeModal /\ isProcessing' /\ submit' = submit)
         /\ (SubmissionSucceeded' /\ submit # NoSubmit) =>
              (activeModal' = ClosedModal /\ ~isProcessing')
         /\ (SubmissionFailed' /\ done'.fn \in ConfirmHandlers) =>
              (activeModal' = activeModal /\ activeModal # ClosedModal /\ ~isProcessing')
         /\ activeModal' # activeModal =>
              \/ activeModal = ClosedModal /\ op' = "openModal"
              \/ /\ activeModal' = ClosedModal
                 /\ \/ op' = "closeModal" /\ ~isProcessing
                    \/ SubmissionSucceeded' /\ isProcessing ]_vars

\* the offer on a loaded token was accepted and the accept modal closed behind it
C21_ClosedAfterSale ==
  /\ listVariant = "real"
  /\ SubmissionSucceeded
  /\ done.fn = "handleAcceptConfirm"
  /\ op = "handleAcceptConfirm"
  /\ activeModal = ClosedModal
  /\ ~isProcessing

\* C22: handleMint with an address sets isMinting and shows nothing yet; without one it
\* only calls connect() and leaves the mint state alone; isMinting ends only by the
\* timer, which shows the success modal with exactly one success toast, and the modal
\* is shown by nothing else; a mint that started reaches the success modal.
C22_MintFlow ==
  /\ [][ /\ op' = "handleMint" =>
              IF address # Null
                THEN /\ ~mint.isMinting /\ mint'.isMinting
                     /\ mint'.showModal = mint.showModal
                     /\ emitted' = <<>>
                     /\ sent' = <<>>
                     /\ calls' = calls
                ELSE /\ mint' = mint
                     /\ emitted' = <<>>
                     /\ \/ sent' = <<"eth_requestAccounts">>
                        \/ provider = "none" /\ done'.fn = "connect"
         /\ (mint.isMinting /\ ~mint'.isMinting) =>
              /\ mint'.showModal
              /\ Len(emitted') = 1
              /\ emitted'[1].call = "onShowToast"
              /\ emitted'[1].type = "success"
         /\ (~mint.showModal /\ mint'.showModal) => mint.isMinting
         /\ (mint.isMinting /\ mint'.isMinting) => emitted' = <<>> ]_vars
  /\ mint.isMinting ~> (~mint.isMinting /\ mint.showModal)

\* a pre-order of two went through: the success modal is up after its toast
C22_SuccessModalShown ==
  /\ op = "mintTimer"
  /\ address # Null
  /\ ~mint.isMinting
  /\ mint.showModal
  /\ mint.quantity = 2
  /\ emitted = <<Toast("Successfully pre-ordered (Mock)", "success")>>

\* the token ids of a list
Ids(list) == {list[k].id : k \in 1..Len(list)}

\* C23: a token removed from the item list by a fulfilled offer is not in the list
\* again before a new owned-token load starts: apart from the steps of a load, no step
\* brings a token into the list that the list did not hold, whatever an enrichment
\* run in progress does.
C23_SoldStaysRemoved ==
  [][ (~loading /\ ~loading' /\ op' \notin {"loadData", "addressEffect"}) =>
        Ids(items') \subseteq Ids(items) ]_vars

\* fulfillListing of handleBuy succeeded in the last step
BuySucceeded == done.fn = "handleBuy" /\ done.value.threw = Null /\ op = "handleBuy"

\* C24: when fulfillListing succeeds, the floor list afterwards holds no listing with
\* the bought orderHash and holds every other listing of the list before, unchanged
\* and in the same order; without an address handleBuy only calls connect(): the floor
\* state stays as it is and no order request goes out.
C24_BoughtListingRemoved ==
  [][ /\ (BuySucceeded' /\ floor.buy # NoListing) =>
           LET old == floor.items
               new == floor'.items
               others == {k \in 1..Len(old) : old[k].orderHash # floor.buy.orderHash}
           IN /\ \A k \in 1..Len(new) : new[k].orderHash # floor.buy.orderHash
              /\ Len(new) = Cardinality(others)
              /\ \A k \in others : \E j \in 1..Len(new) : new[j] = old[k]
              /\ \A i, j \in 1..Len(new) :
                   i < j => \E a, b \in others : a < b /\ old[a] = new[i] /\ old[b] = new[j]
      /\ (op' = "handleBuy" /\ floor.buy = NoListing /\ address = Null) =>
           /\ floor' = floor
           /\ emitted' = <<>>
           /\ \/ sent' = <<"eth_requestAccounts">>
              \/ provider = "none" /\ sent' = <<>> /\ done'.fn = "connect" ]_vars

\* the second of two floor listings was bought and the first one is still there
C24_SecondListingBought ==
  /\ BuySucceeded
  /\ emitted = <<Toast("Bought", "success")>>
  /\ floor.items = SubSeq(FLOOR_LISTINGS, 1, 1)
  /\ floor.buyingId = Null

\* C25: the portfolio item list holds only tokens loaded for the connected address, so
\* once the address is null and the [address] effect has cleared the list, the list
\* stays empty: no load or enrichment started for the previous address writes to it.
C25_NoStaleTokens ==
  (listVariant = "real" /\ address = Null /\ effectAddress = Null) => items = <<>>

\* C26: isConnecting is true exactly while at least one connect() call of the hook
\* instance is in flight, also when two calls overlap.
C26_ConnectingIffInFlight ==
  isConnecting <=> (\E c \in Calls : calls[c].pc # "idle")

\* connect() or disconnect() of the first instance completed in the last step
SessionChanged ==
  \/ op = "disconnect"
  \/ ConnectSettled /\ error = Null /\ address # Null

\* C27: the mounted useWallet instances come to report the same address: when
\* connect() succeeded or disconnect() ran on one instance and another mounted
\* instance holds a different address, the two agree at some later time.
C27_InstancesAgree ==
  (SessionChanged /\ mounted /\ peer.mounted /\ address # peer.address)
    ~> (address = peer.address)

\* the connect() call that settled in the last step ended in its catch block
ConnectCaught ==
  /\ ConnectSettled
  /\ Len(done.value.log) > 0
  /\ done.value.log[Len(done.value.log)].result = "rejected"
  /\ error # Null

\* C28: a connect() call that resolves with a non-null error has not changed the
\* address: connect() changes the address only when it completes without error.
C28_ErrorKeepsAddress ==
  ConnectCaught => ~done.value.changed

\* the fields of a CanvasItem that enrichment leaves alone
KeptFields(item) == <<item.id, item.day, item.imageUrl, item.lastSale>>

\* list has the tokens of the input, in the input's order
SameTokens(list) ==
  /\ Len(list) = Len(input)
  /\ \A pos \in 1..Len(list) : KeptFields(list[pos]) = KeptFields(input[pos])

\* C29: enrichWithMarketData leaves its input as it was given, and its working list,
\* every snapshot and its result have the input's length and order and keep id, day,
\* imageUrl and lastSale of the input item at each position; the SDK variant also
\* keeps bestOfferProtocolAddress.
C29_OnlyMarketFieldsChange ==
  /\ input = OwnedTokens(Len(input))
  /\ (running \/ EnrichSettled) =>
       /\ SameTokens(RunItems)
       /\ \A s \in 1..Len(RunSnapshots) : SameTokens(RunSnapshots[s])
       /\ variant = "sdk" =>
            \A pos \in 1..Len(RunItems) :
              RunItems[pos].bestOfferProtocolAddress = input[pos].bestOfferProtocolAddress

\* a run over five tokens has returned a list in which a token is listed with an offer
C29_AnnotatedFiveTokens ==
  /\ EnrichSettled
  /\ Len(input) = 5
  /\ Len(RunSnapshots) = 2
  /\ \E pos \in 1..Len(RunItems) :
       RunItems[pos].isListed /\ RunItems[pos].bestOffer # Zero

\* a flag is set exactly while its component awaits a submission
FlagsFollowSubmissions ==
  /\ isProcessing <=> submit # NoSubmit
  /\ floor.buyingId # Null <=> floor.buy # NoListing

\* C30: each component has at most one order submission in flight: while
\* isProcessing is set the only step of the confirm handlers is the settlement of
\* the pending createListing / fulfillOffer, which starts no request and clears the
\* flag; while buyingId is set the only step of handleBuy is the settlement of the
\* pending fulfillListing, which starts no request and resets buyingId to null; a
\* handler that has settled, with or without an error, leaves its flag cleared.
C30_OneSubmissionInFlight ==
  /\ []FlagsFollowSubmissions
  /\ [][ /\ (isProcessing /\ op' \in ConfirmHandlers) =>
              sent' = <<>> /\ ~isProcessing' /\ done'.fn \in ConfirmHandlers
         /\ (floor.buyingId # Null /\ op' = "handleBuy") =>
              sent' = <<>> /\ floor'.buyingId = Null /\ done'.fn = "handleBuy"
         /\ done'.fn \in ConfirmHandlers => ~isProcessing'
         /\ done'.fn = "handleBuy" => floor'.buyingId = Null ]_vars

\* a listing is being created while a purchase from a floor list of two is pending
C30_BothComponentsBusy ==
  /\ isProcessing
  /\ submit.kind = "createListing"
  /\ floor.buyingId # Null
  /\ Len(floor.items) = 2
====
